---- MODULE Spec2Model ----
(***************************************************************************)
(* Document verification job pipeline of the rental marketplace backend:   *)
(* app/services/document_processor.py (DocumentProcessor) and the job      *)
(* submission endpoints of app/routes/onboarding.py and                    *)
(* app/routes/landlord_onboarding.py.                                      *)
(*                                                                         *)
(* The table document_processing_jobs is the sequence jobs (a row's id is  *)
(* its index), the table landlord_onboarding is the function onboarding.   *)
(* Each worker runs process_document_async in a database session of its    *)
(* own; a step of a worker is the code between two database round trips    *)
(* that other sessions can observe (query, commit).  Rows that a session   *)
(* has flushed but not committed are invisible to the other sessions.      *)
(*                                                                         *)
(* document_processor.py uses the names func (l.69, l.83) and re (l.369,   *)
(* l.392) without importing them at module level (re is imported only      *)
(* inside _parse_bank_statement, l.342).  Whether these names are bound is *)
(* fixed once per behaviour by func_bound and re_bound: unbound, the use   *)
(* raises NameError, as the file stands; bound, it is sqlalchemy's func    *)
(* and the standard module re, as the file evidently means.                *)
(***************************************************************************)
EXTENDS Integers, Sequences, FiniteSets, TLC

(* ---------------------------- bounds ----------------------------------- *)
MaxJobs == 2
MaxRequests == 3
MaxStrategyRequests == 5

(* ------------------------- program constants --------------------------- *)
MaxRetries == 3
JobStatusColumnDefault == "queued"
NoScore == -1
NoJob == 0

Workers == {1, 2}
OnboardingIds == {1, 2}
Users == {"landlord1", "landlord2"}
LandlordOf(o) == IF o = 1 THEN "landlord1" ELSE "landlord2"

IdentityTypes == {"nin", "bvn", "id_document"}
SupportingTypes == {"insurance", "cac_certificate", "guarantor_id"}
DocumentType == IdentityTypes \cup {"selfie", "bank_statement"} \cup SupportingTypes
JobStatus == {"queued", "processing", "completed", "failed", "retrying"}

(* what callers submit: the pipeline specification follows one document type
   through two sessions, the strategy specification follows every document
   type (and one outside the known set) through one session *)
PipelineTypes == {"nin"}
StrategyTypes == DocumentType \cup {"passport"}
DocumentUrls == {"u1"}
Payload(url) == "b1"

(* ------------------------- oracle answers ------------------------------ *)
Text11 == <<"1","2","3","4","5","6","7","8","9","0","1">>
Text12 == Text11 \o <<"2">>
TextLabelled == <<"N","I","N",":">> \o Text11
TextGlued == <<"N","o">> \o Text11
TextNone == <<"n","o","n","e">>
OcrTexts == {Text11, Text12, TextLabelled, TextGlued, TextNone}
OcrConfidences == {90, 150}
PipelineOcrAnswers ==
    {[ok |-> TRUE, text |-> Text11, confidence |-> 90],
     [ok |-> TRUE, text |-> TextNone, confidence |-> 90],
     [ok |-> FALSE, text |-> <<>>, confidence |-> 0]}
PipelineOracleAnswers ==
    {[ok |-> TRUE, positive |-> TRUE, liveness |-> TRUE, confidence |-> 150,
      error_message |-> "NULL"]}
OracleConfidences == {90, 150}

OcrAnswers ==
    [ok : {TRUE}, text : OcrTexts, confidence : OcrConfidences]
        \cup [ok : {FALSE}, text : {<<>>}, confidence : {0}]
OracleAnswers ==
    [ok : {TRUE}, positive : BOOLEAN, liveness : BOOLEAN,
     confidence : OracleConfidences, error_message : {"NULL", "oracle message"}]
        \cup [ok : {FALSE}, positive : {FALSE}, liveness : {FALSE},
              confidence : {0}, error_message : {"NULL"}]

VARIABLES func_bound, re_bound, jobs, onboarding, pc, local,
          ocr_calls, verify_calls, requests, response

vars == <<func_bound, re_bound, jobs, onboarding, pc, local,
          ocr_calls, verify_calls, requests, response>>

(* ---------------------------- hashing ---------------------------------- *)
Sha256(bytes) == <<"sha256", bytes>>

GenerateContentHashNoFallback(url, fetch_ok) ==
    IF fetch_ok THEN Sha256(Payload(url)) ELSE <<>>

GenerateContentHash(url, fetch_ok) ==
    IF fetch_ok THEN Sha256(Payload(url)) ELSE Sha256(url)

(* ----------------------------- rows ------------------------------------ *)
NewJob(onboarding_id, document_type, content_hash, status) ==
    [onboarding_id |-> onboarding_id,
     document_type |-> document_type,
     content_hash |-> content_hash,
     job_status |-> status,
     retry_count |-> 0,
     max_retries |-> MaxRetries,
     extraction_results |-> "NULL",
     verification_results |-> "NULL",
     confidence_score |-> NoScore,
     error_message |-> "NULL",
     started_at |-> FALSE,
     completed_at |-> FALSE]

NewOnboarding ==
    [nin_verified |-> FALSE,
     bvn_verified |-> FALSE,
     id_document_verified |-> FALSE,
     selfie_verified |-> FALSE,
     bank_verification_status |-> "pending",
     document_processing_status |-> "pending"]

Result(status, extraction, verification, confidence, error) ==
    [status |-> status,
     extraction_results |-> extraction,
     verification_results |-> verification,
     confidence_score |-> confidence,
     error_message |-> error]

NoResult == Result("NULL", "NULL", "NULL", NoScore, "NULL")

IdleLocal ==
    [onboarding_id |-> 0, document_type |-> "NULL", content_hash |-> <<>>,
     job |-> NoJob, result |-> NoResult,
     onb_found |-> FALSE, onb_loaded |-> NewOnboarding, onb_new |-> NewOnboarding]

JobIds == 1..Len(jobs)

(* ------------------- extraction and verification ----------------------- *)
Digits == {"0","1","2","3","4","5","6","7","8","9"}
Letters == {"N","I","o","n","e"}
IsWordChar(c) == c \in Digits \cup Letters \cup {"_"}

(* re.search(r'\b\d{11}\b', text), l.368-369 and l.391-392 *)
SearchDigits11(text) ==
    \E i \in 1..(Len(text) - 10) :
        /\ \A k \in i..(i + 10) : text[k] \in Digits
        /\ (i = 1 \/ ~IsWordChar(text[i - 1]))
        /\ (i + 10 = Len(text) \/ ~IsWordChar(text[i + 11]))

Extraction(success, text, confidence, error) ==
    [success |-> success, extracted_text |-> text,
     confidence |-> confidence, error |-> error]

ExtractTextFromImage(ocr) ==
    IF ocr.ok
    THEN Extraction(TRUE, ocr.text, ocr.confidence, "NULL")
    ELSE Extraction(FALSE, <<>>, NoScore, "OCR service unavailable")

Verification(verified, confidence, error) ==
    [verified |-> verified, confidence_score |-> confidence, error_message |-> error]

VerifyNin(extracted_text) ==
    IF SearchDigits11(extracted_text)
    THEN Verification(TRUE, 95, "NULL")
    ELSE Verification(FALSE, 0, "NIN not found in document")

VerifyBvn(extracted_text) ==
    IF SearchDigits11(extracted_text)
    THEN Verification(TRUE, 95, "NULL")
    ELSE Verification(FALSE, 0, "BVN not found in document")

VerifyIdDocument(extracted_text, meta_confidence) ==
    Verification(TRUE, IF meta_confidence = NoScore THEN 85 ELSE meta_confidence, "NULL")

(* the NameError of an unbound re is caught by the except of l.270 *)
VerifyIdentityDocument(bound, document_type, extracted_text, meta_confidence) ==
    IF document_type = "nin"
    THEN IF bound THEN VerifyNin(extracted_text)
         ELSE Verification(FALSE, 0, "name 're' is not defined")
    ELSE IF document_type = "bvn"
    THEN IF bound THEN VerifyBvn(extracted_text)
         ELSE Verification(FALSE, 0, "name 're' is not defined")
    ELSE VerifyIdDocument(extracted_text, meta_confidence)

VerifyFaceDocument(oracle) ==
    IF oracle.ok
    THEN Verification(oracle.positive, oracle.confidence, oracle.error_message)
    ELSE Verification(FALSE, 0, "face service error")

VerifyBankAccount(oracle) ==
    IF oracle.ok
    THEN Verification(oracle.positive, oracle.confidence, oracle.error_message)
    ELSE Verification(FALSE, 0, "bank service error")

Verdict(v) == IF v.verified THEN "verified" ELSE "not_verified"

Processed(extraction, v) ==
    Result(IF v.verified THEN "completed" ELSE "failed",
           extraction, Verdict(v), v.confidence_score,
           IF v.verified THEN "NULL" ELSE v.error_message)

ProcessIdentityDocument(bound, document_type, ocr) ==
    LET e == ExtractTextFromImage(ocr) IN
    IF ~e.success
    THEN Result("failed", "NULL", "NULL", 0, e.error)
    ELSE Processed("success",
                   VerifyIdentityDocument(bound, document_type, e.extracted_text, e.confidence))

ProcessSelfieDocument(oracle) ==
    Processed("NULL", VerifyFaceDocument(oracle))

ProcessBankStatement(ocr, oracle) ==
    LET e == ExtractTextFromImage(ocr) IN
    IF ~e.success
    THEN Result("failed", "NULL", "NULL", 0, e.error)
    ELSE Processed("success", VerifyBankAccount(oracle))

(* extraction_result has no key 'confidence' (it sits in metadata), so the
   default 85 of l.218 is always taken *)
ProcessSupportingDocument(ocr) ==
    LET e == ExtractTextFromImage(ocr) IN
    Result("completed", IF e.success THEN "success" ELSE "failure", "verified", 85, "NULL")

ProcessByType(bound, document_type, ocr, oracle) ==
    IF document_type \in IdentityTypes
    THEN ProcessIdentityDocument(bound, document_type, ocr)
    ELSE IF document_type = "selfie"
    THEN ProcessSelfieDocument(oracle)
    ELSE IF document_type = "bank_statement"
    THEN ProcessBankStatement(ocr, oracle)
    ELSE IF document_type \in SupportingTypes
    THEN ProcessSupportingDocument(ocr)
    ELSE Result("failed", "NULL", "NULL", 0, "Unknown document type")

(* calls made to the OCR service and to a verification strategy *)
OcrCallsOf(document_type) ==
    IF document_type \in IdentityTypes \cup {"bank_statement"} \cup SupportingTypes
    THEN 1 ELSE 0

VerifyCallsOf(document_type, ocr) ==
    IF document_type = "selfie" THEN 1
    ELSE IF document_type \in IdentityTypes \cup {"bank_statement"} /\ ocr.ok THEN 1
    ELSE 0

(* --------------------------- aggregator -------------------------------- *)
Rollup(statuses) ==
    LET all_jobs == DOMAIN statuses
        completed_jobs == {j \in all_jobs : statuses[j] = "completed"}
        failed_jobs == {j \in all_jobs : statuses[j] = "failed"}
    IN  IF Cardinality(completed_jobs) = Cardinality(all_jobs) THEN "completed"
        ELSE IF Cardinality(failed_jobs) > 0 THEN "failed"
        ELSE "processing"

VerifiedFlag(row, document_type, result) ==
    LET verified == result.verification_results = "verified" IN
    IF document_type = "nin" THEN [row EXCEPT !.nin_verified = verified]
    ELSE IF document_type = "bvn" THEN [row EXCEPT !.bvn_verified = verified]
    ELSE IF document_type = "id_document" THEN [row EXCEPT !.id_document_verified = verified]
    ELSE IF document_type = "selfie" THEN [row EXCEPT !.selfie_verified = verified]
    ELSE IF document_type = "bank_statement"
    THEN [row EXCEPT !.bank_verification_status = IF verified THEN "verified" ELSE "failed"]
    ELSE row

(* the job rows of onboarding_id as the session of the job own sees them:
   the committed rows, and its own flushed job_status *)
VisibleStatuses(rows, onboarding_id, own, own_status) ==
    [j \in {k \in 1..Len(rows) : rows[k].onboarding_id = onboarding_id} |->
        IF j = own THEN own_status ELSE rows[j].job_status]

UpdateOnboardingDocumentStatusFromPending(row, onboarding_id, document_type, result, rows, own) ==
    [VerifiedFlag(row, document_type, result) EXCEPT
        !.document_processing_status =
            IF row.document_processing_status = "pending"
            THEN "processing"
            ELSE Rollup(VisibleStatuses(rows, onboarding_id, own, result.status))]

UpdateOnboardingDocumentStatus(row, onboarding_id, document_type, result, rows, own) ==
    [VerifiedFlag(row, document_type, result) EXCEPT
        !.document_processing_status =
            Rollup(VisibleStatuses(rows, onboarding_id, own, result.status))]

(* the UPDATE of the onboarding row sets the columns whose value the session
   changed since it loaded the row *)
WriteChanged(current, loaded, new) ==
    [f \in DOMAIN current |-> IF new[f] # loaded[f] THEN new[f] ELSE current[f]]

Init ==
    /\ func_bound \in BOOLEAN
    /\ re_bound \in BOOLEAN
    /\ jobs = <<>>
    /\ onboarding = [o \in OnboardingIds |-> NewOnboarding]
    /\ pc = [w \in Workers |-> "idle"]
    /\ local = [w \in Workers |-> IdleLocal]
    /\ ocr_calls = 0
    /\ verify_calls = 0
    /\ requests = 0
    /\ response = [kind |-> "none", status |-> 0, job |-> NoJob]

(* the end of a call of process_document_async: its return value, and the
   session closed by l.103 *)
Return(w, job) ==
    /\ pc' = [pc EXCEPT ![w] = "idle"]
    /\ local' = [local EXCEPT ![w] = IdleLocal]
    /\ response' = [kind |-> "return", status |-> 0, job |-> job]

(* an exception that leaves process_document_async: the session is closed by
   l.103 and the caller gets the exception *)
Raise(w) ==
    /\ pc' = [pc EXCEPT ![w] = "idle"]
    /\ local' = [local EXCEPT ![w] = IdleLocal]
    /\ response' = [kind |-> "raise", status |-> 0, job |-> NoJob]

(* process_document_async without job_id, l.44-46: fingerprint the document *)
Submit(w, onboarding_id, document_type, url, fetch_ok) ==
    /\ pc[w] = "idle"
    /\ requests' = requests + 1
    /\ local' = [local EXCEPT ![w] =
                    [IdleLocal EXCEPT !.onboarding_id = onboarding_id,
                                      !.document_type = document_type,
                                      !.content_hash = GenerateContentHash(url, fetch_ok)]]
    /\ pc' = [pc EXCEPT ![w] = "lookup"]
    /\ UNCHANGED <<func_bound, re_bound, jobs, onboarding, ocr_calls, verify_calls, response>>

(* l.47-54: the deduplication query and the early return *)
ExistingJobsCompletedOnly(rows, content_hash) ==
    {j \in 1..Len(rows) : /\ rows[j].content_hash = content_hash
                          /\ rows[j].job_status \in {"completed"}}

ExistingJobsAnyStatus(rows, content_hash) ==
    {j \in 1..Len(rows) : rows[j].content_hash = content_hash}

ExistingJobs(rows, content_hash) ==
    {j \in 1..Len(rows) : /\ rows[j].content_hash = content_hash
                          /\ rows[j].job_status \in {"completed", "processing"}}

LookupExisting(w) ==
    /\ pc[w] = "lookup"
    /\ LET existing == ExistingJobs(jobs, local[w].content_hash) IN
       IF existing # {}
       THEN \E existing_job \in existing : Return(w, existing_job)
       ELSE /\ pc' = [pc EXCEPT ![w] = "create"]
            /\ UNCHANGED <<local, response>>
    /\ UNCHANGED <<func_bound, re_bound, jobs, onboarding, ocr_calls, verify_calls, requests>>

(* l.47-50 when the query raises a database error: the name job is not yet
   assigned, so the test of l.98 in the handler raises UnboundLocalError *)
LookupExistingFails(w) ==
    /\ pc[w] = "lookup"
    /\ Raise(w)
    /\ UNCHANGED <<func_bound, re_bound, jobs, onboarding, ocr_calls, verify_calls, requests>>

StartProcessingRetries(bound, row) ==
    IF bound
    THEN [row EXCEPT !.job_status = "processing", !.started_at = TRUE]
    ELSE [row EXCEPT !.job_status = "retrying",
                     !.retry_count = @ + 1,
                     !.error_message = "name 'func' is not defined"]

(* l.67-70 and, when func is unbound, the handler of l.96-101: the row as the
   commit leaves it *)
StartProcessing(bound, row) ==
    IF bound
    THEN [row EXCEPT !.job_status = "processing", !.started_at = TRUE]
    ELSE [row EXCEPT !.job_status = "failed",
                     !.error_message = "name 'func' is not defined"]

(* l.56-70: insert the row, claim it, commit *)
CreateJob(w) ==
    /\ pc[w] = "create"
    /\ Len(jobs) < MaxJobs
    /\ jobs' = Append(jobs, StartProcessing(func_bound,
                    NewJob(local[w].onboarding_id, local[w].document_type,
                           local[w].content_hash, "queued")))
    /\ IF func_bound
       THEN /\ pc' = [pc EXCEPT ![w] = "process"]
            /\ local' = [local EXCEPT ![w].job = Len(jobs) + 1]
            /\ UNCHANGED response
       ELSE Return(w, NoJob)
    /\ UNCHANGED <<func_bound, re_bound, onboarding, ocr_calls, verify_calls, requests>>

(* process_document_async with job_id, l.40-43 and l.67-70; a job_id without
   a row makes l.68 raise and the handler finds no job *)
SubmitWithJobId(w, job_id, onboarding_id, document_type) ==
    /\ pc[w] = "idle"
    /\ requests' = requests + 1
    /\ IF job_id \notin JobIds
       THEN /\ Return(w, NoJob)
            /\ UNCHANGED jobs
       ELSE /\ jobs' = [jobs EXCEPT ![job_id] = StartProcessing(func_bound, @)]
            /\ IF func_bound
               THEN /\ pc' = [pc EXCEPT ![w] = "process"]
                    /\ local' = [local EXCEPT ![w] =
                                    [IdleLocal EXCEPT !.onboarding_id = onboarding_id,
                                                      !.document_type = document_type,
                                                      !.job = job_id]]
                    /\ UNCHANGED response
               ELSE Return(w, NoJob)
    /\ UNCHANGED <<func_bound, re_bound, onboarding, ocr_calls, verify_calls>>

(* l.40-43 when the query raises a database error: as at l.47-50, job is
   unassigned when the handler tests it *)
SubmitWithJobIdFails(w) ==
    /\ pc[w] = "idle"
    /\ requests' = requests + 1
    /\ Raise(w)
    /\ UNCHANGED <<func_bound, re_bound, jobs, onboarding, ocr_calls, verify_calls>>

RecordFailureRetryAtLimit(row, result) ==
    LET updated == [row EXCEPT !.job_status = result.status,
                               !.extraction_results = result.extraction_results,
                               !.verification_results = result.verification_results,
                               !.confidence_score = result.confidence_score,
                               !.error_message = result.error_message]
    IN  IF row.retry_count <= row.max_retries
        THEN [updated EXCEPT !.retry_count = @ + 1, !.job_status = "retrying"]
        ELSE updated

(* l.76-93 for a result that is not completed: the retry decision of l.85-88 *)
RecordFailure(row, result) ==
    LET updated == [row EXCEPT !.job_status = result.status,
                               !.extraction_results = result.extraction_results,
                               !.verification_results = result.verification_results,
                               !.confidence_score = result.confidence_score,
                               !.error_message = result.error_message]
    IN  IF row.retry_count < row.max_retries
        THEN [updated EXCEPT !.retry_count = @ + 1, !.job_status = "retrying"]
        ELSE updated

RecordCompletedKeepsStatus(row, result) ==
    [row EXCEPT !.extraction_results = result.extraction_results,
                !.verification_results = result.verification_results,
                !.confidence_score = result.confidence_score,
                !.error_message = result.error_message,
                !.completed_at = TRUE]

(* l.76-83 for a completed result *)
RecordCompleted(row, result) ==
    [row EXCEPT !.job_status = result.status,
                !.extraction_results = result.extraction_results,
                !.verification_results = result.verification_results,
                !.confidence_score = result.confidence_score,
                !.error_message = result.error_message,
                !.completed_at = TRUE]

ProcessDocumentAggregatesFailure(w, ocr, oracle) ==
    /\ pc[w] = "process"
    /\ LET document_type == local[w].document_type
           onboarding_id == local[w].onboarding_id
           job == local[w].job
           result == ProcessByType(re_bound, document_type, ocr, oracle)
       IN  /\ ocr_calls' = ocr_calls + OcrCallsOf(document_type)
           /\ verify_calls' = verify_calls + VerifyCallsOf(document_type, ocr)
           /\ IF result.status = "completed"
              THEN /\ pc' = [pc EXCEPT ![w] = "commit"]
                   /\ local' = [local EXCEPT ![w] =
                        [@ EXCEPT !.result = result,
                                  !.onb_found = onboarding_id \in DOMAIN onboarding,
                                  !.onb_loaded = onboarding[onboarding_id],
                                  !.onb_new = UpdateOnboardingDocumentStatus(
                                                  onboarding[onboarding_id], onboarding_id,
                                                  document_type, result, jobs, job)]]
                   /\ UNCHANGED <<jobs, response, onboarding>>
              ELSE /\ jobs' = [jobs EXCEPT ![job] = RecordFailure(@, result)]
                   /\ onboarding' = [onboarding EXCEPT ![onboarding_id] =
                                        VerifiedFlag(@, document_type, result)]
                   /\ Return(w, NoJob)
    /\ UNCHANGED <<func_bound, re_bound, requests>>

(* l.73-93: run the strategy; a failure is committed at l.93, a completed
   result is flushed and the aggregator reads the rows (l.444-477) *)
ProcessDocument(w, ocr, oracle) ==
    /\ pc[w] = "process"
    /\ LET document_type == local[w].document_type
           onboarding_id == local[w].onboarding_id
           job == local[w].job
           result == ProcessByType(re_bound, document_type, ocr, oracle)
       IN  /\ ocr_calls' = ocr_calls + OcrCallsOf(document_type)
           /\ verify_calls' = verify_calls + VerifyCallsOf(document_type, ocr)
           /\ IF result.status = "completed"
              THEN /\ pc' = [pc EXCEPT ![w] = "commit"]
                   /\ local' = [local EXCEPT ![w] =
                        [@ EXCEPT !.result = result,
                                  !.onb_found = onboarding_id \in DOMAIN onboarding,
                                  !.onb_loaded = onboarding[onboarding_id],
                                  !.onb_new = UpdateOnboardingDocumentStatus(
                                                  onboarding[onboarding_id], onboarding_id,
                                                  document_type, result, jobs, job)]]
                   /\ UNCHANGED <<jobs, response>>
              ELSE /\ jobs' = [jobs EXCEPT ![job] = RecordFailure(@, result)]
                   /\ Return(w, NoJob)
    /\ UNCHANGED <<func_bound, re_bound, onboarding, requests>>

CommitCompletedEveryOnboarding(w) ==
    /\ pc[w] = "commit"
    /\ jobs' = [jobs EXCEPT ![local[w].job] = RecordCompleted(@, local[w].result)]
    /\ onboarding' = [o \in DOMAIN onboarding |->
                         WriteChanged(onboarding[o], local[w].onb_loaded, local[w].onb_new)]
    /\ Return(w, NoJob)
    /\ UNCHANGED <<func_bound, re_bound, ocr_calls, verify_calls, requests>>

(* l.479 (l.93 when the onboarding row is missing): commit the job row and
   the onboarding row *)
CommitCompleted(w) ==
    /\ pc[w] = "commit"
    /\ jobs' = [jobs EXCEPT ![local[w].job] = RecordCompleted(@, local[w].result)]
    /\ onboarding' =
         IF local[w].onb_found
         THEN [onboarding EXCEPT ![local[w].onboarding_id] =
                  WriteChanged(@, local[w].onb_loaded, local[w].onb_new)]
         ELSE onboarding
    /\ Return(w, NoJob)
    /\ UNCHANGED <<func_bound, re_bound, ocr_calls, verify_calls, requests>>

(* ------------------------ submission endpoints ------------------------- *)
ClientHashes == {<<>>, Sha256("b1")}
RouteTypes == PipelineTypes \cap DocumentType

Respond(status, job) ==
    response' = [kind |-> "http", status |-> status, job |-> job]

(* app/routes/onboarding.py: the HTTPExceptions raised inside the try are
   caught by its except Exception and answered with 500 *)
CreateDocumentProcessingJob(user, onboarding_id, document_type, content_hash) ==
    /\ IF onboarding_id \notin DOMAIN onboarding \/ LandlordOf(onboarding_id) # user
       THEN /\ Respond(500, NoJob)
            /\ UNCHANGED jobs
       ELSE /\ Len(jobs) < MaxJobs
            /\ jobs' = Append(jobs, NewJob(onboarding_id, document_type, content_hash, "queued"))
            /\ Respond(200, Len(jobs) + 1)
    /\ requests' = requests + 1
    /\ UNCHANGED <<func_bound, re_bound, onboarding, pc, local, ocr_calls, verify_calls>>

(* app/routes/landlord_onboarding.py: the record carries "status": "pending"
   and no job_status, which is left to the column default *)
CreateDocumentProcessingJobLandlord(user, onboarding_id, document_type, content_hash) ==
    /\ IF onboarding_id \notin DOMAIN onboarding \/ LandlordOf(onboarding_id) # user
       THEN /\ Respond(404, NoJob)
            /\ UNCHANGED jobs
       ELSE /\ Len(jobs) < MaxJobs
            /\ jobs' = Append(jobs, NewJob(onboarding_id, document_type, content_hash,
                                           JobStatusColumnDefault))
            /\ Respond(200, Len(jobs) + 1)
    /\ requests' = requests + 1
    /\ UNCHANGED <<func_bound, re_bound, onboarding, pc, local, ocr_calls, verify_calls>>

(* requests counts the calls of process_document_async and of the endpoints;
   the specifications stop accepting calls at their bound *)
Next ==
    \/ /\ requests < MaxRequests
       /\ \E w \in Workers, o \in OnboardingIds, t \in PipelineTypes,
             u \in DocumentUrls, f \in BOOLEAN : Submit(w, o, t, u, f)
    \/ \E w \in Workers : LookupExisting(w)
    \/ \E w \in Workers : LookupExistingFails(w)
    \/ \E w \in Workers : CreateJob(w)
    \/ /\ requests < MaxRequests
       /\ \E w \in Workers : SubmitWithJobIdFails(w)
    \/ /\ requests < MaxRequests
       /\ \E w \in Workers, j \in 1..MaxJobs :
             IF j \in JobIds
             THEN SubmitWithJobId(w, j, jobs[j].onboarding_id, jobs[j].document_type)
             ELSE SubmitWithJobId(w, j, 1, "nin")
    \/ \E w \in Workers, ocr \in PipelineOcrAnswers, oracle \in PipelineOracleAnswers :
          ProcessDocument(w, ocr, oracle)
    \/ \E w \in Workers : CommitCompleted(w)
    \/ /\ requests < MaxRequests
       /\ \E user \in Users, o \in OnboardingIds, t \in RouteTypes, h \in ClientHashes :
             CreateDocumentProcessingJob(user, o, t, h)
    \/ /\ requests < MaxRequests
       /\ \E user \in Users, o \in OnboardingIds, t \in RouteTypes, h \in ClientHashes :
             CreateDocumentProcessingJobLandlord(user, o, t, h)

Spec == Init /\ [][Next]_vars

(* one session, one onboarding and one job, of any document type, under every
   oracle answer *)
StrategyNext ==
    \/ /\ requests < MaxStrategyRequests
       /\ Len(jobs) = 0
       /\ \E t \in StrategyTypes, u \in DocumentUrls : Submit(1, 1, t, u, TRUE)
    \/ LookupExisting(1)
    \/ CreateJob(1)
    \/ /\ requests < MaxStrategyRequests
       /\ \E j \in 1..MaxJobs :
             IF j \in JobIds
             THEN SubmitWithJobId(1, j, jobs[j].onboarding_id, jobs[j].document_type)
             ELSE SubmitWithJobId(1, j, 1, "nin")
    \/ \E ocr \in OcrAnswers, oracle \in OracleAnswers : ProcessDocument(1, ocr, oracle)
    \/ CommitCompleted(1)

StrategySpec == Init /\ [][StrategyNext]_vars

(* one session and one job of any document type, with an OCR service that
   times out on every call *)
OcrTimeout == [ok |-> FALSE, text |-> <<>>, confidence |-> 0]

TimeoutNext ==
    \/ /\ requests < MaxStrategyRequests
       /\ Len(jobs) = 0
       /\ \E t \in StrategyTypes, u \in DocumentUrls : Submit(1, 1, t, u, TRUE)
    \/ LookupExisting(1)
    \/ CreateJob(1)
    \/ /\ requests < MaxStrategyRequests
       /\ \E j \in 1..MaxJobs :
             IF j \in JobIds
             THEN SubmitWithJobId(1, j, jobs[j].onboarding_id, jobs[j].document_type)
             ELSE SubmitWithJobId(1, j, 1, "nin")
    \/ \E oracle \in OracleAnswers : ProcessDocument(1, OcrTimeout, oracle)
    \/ CommitCompleted(1)

TimeoutSpec == Init /\ [][TimeoutNext]_vars

(* the steps of a call that has started are taken: a started call runs to its
   end; nothing in the repository calls process_document_async, so no new
   call is ever bound to happen *)
Fairness ==
    \A w \in Workers :
        WF_vars(\/ LookupExisting(w)
                \/ CreateJob(w)
                \/ \E ocr \in PipelineOcrAnswers, oracle \in PipelineOracleAnswers :
                      ProcessDocument(w, ocr, oracle)
                \/ CommitCompleted(w))

FairSpec == Spec /\ Fairness

(* ------------------------------ claims ---------------------------------- *)
(* The claims that fail are stated for the builds in which func and re are
   bound, so that no counterexample rests on a NameError; C19 is the
   exception, the unbound name being what keeps its case from happening. *)
NamesBound == func_bound /\ re_bound

InFlightOrDone(content_hash) ==
    {j \in JobIds : /\ jobs[j].content_hash = content_hash
                    /\ jobs[j].job_status \in {"processing", "completed"}}

(* C1: when the deduplication query of a call without job_id answers and a job
   with the call's content_hash is in processing or completed, the call ends
   there returning one of those jobs; no row is inserted or changed and no
   extraction or verification call is made. *)
C1_IdempotentSubmission ==
    [][\A w \in Workers :
          (/\ pc[w] = "lookup"
           /\ pc'[w] # "lookup"
           /\ ~LookupExistingFails(w)
           /\ InFlightOrDone(local[w].content_hash) # {})
          => /\ pc'[w] = "idle"
             /\ response'.kind = "return"
             /\ response'.job \in InFlightOrDone(local[w].content_hash)
             /\ jobs' = jobs
             /\ ocr_calls' = ocr_calls
             /\ verify_calls' = verify_calls]_vars

C1_Witness ==
    /\ response.kind = "return"
    /\ response.job \in JobIds
    /\ jobs[response.job].job_status \in {"processing", "completed"}

(* C2: of two concurrent calls without job_id for the same content_hash, one
   creates the job row and the other returns it: a call never inserts its row
   while the other call, with the same content_hash, has its job in
   processing. *)
C2_ConcurrentSubmissionCreatesOneJob ==
    [][\A w \in Workers :
          (NamesBound /\ pc[w] = "create" /\ pc'[w] # "create")
          => ~\E v \in Workers \ {w} :
                /\ pc[v] \in {"process", "commit"}
                /\ local[v].content_hash = local[w].content_hash
                /\ jobs[local[v].job].job_status = "processing"]_vars

(* C3: the submission endpoint inserts no row and answers with the existing
   job when a job with the submitted content_hash is in processing or
   completed; otherwise it inserts one row whose job_status is queued. *)
C3_EndpointDeduplicates ==
    [][\A user \in Users, o \in OnboardingIds, t \in RouteTypes, h \in ClientHashes :
          (/\ NamesBound
           /\ \/ CreateDocumentProcessingJob(user, o, t, h)
              \/ CreateDocumentProcessingJobLandlord(user, o, t, h)
           /\ response'.status = 200)
          => IF h # <<>> /\ InFlightOrDone(h) # {}
             THEN jobs' = jobs /\ response'.job \in InFlightOrDone(h)
             ELSE /\ Len(jobs') = Len(jobs) + 1
                  /\ jobs'[Len(jobs')].job_status = "queued"]_vars

(* C4: every change of a job's job_status is an edge of the graph
   queued -> processing -> {completed, failed}, failed -> retrying (while
   retry_count < max_retries), retrying -> queued. *)
ValidTransition(before, after) ==
    \/ before.job_status = "queued" /\ after.job_status = "processing"
    \/ before.job_status = "processing" /\ after.job_status \in {"completed", "failed"}
    \/ /\ before.job_status = "failed"
       /\ after.job_status = "retrying"
       /\ before.retry_count < before.max_retries
    \/ before.job_status = "retrying" /\ after.job_status = "queued"

C4_StateMachineClosure ==
    [][\A j \in JobIds :
          (NamesBound /\ jobs'[j].job_status # jobs[j].job_status)
          => ValidTransition(jobs[j], jobs'[j])]_vars

(* C5: a job whose job_status is completed keeps that job_status. *)
C5_CompletedIsTerminal ==
    [][\A j \in JobIds :
          (NamesBound /\ jobs[j].job_status = "completed")
          => jobs'[j].job_status = "completed"]_vars

(* C6: no job is in retrying with retry_count = max_retries. *)
C6_NoRetryingAtLimit ==
    NamesBound =>
    \A j \in JobIds :
        ~(jobs[j].job_status = "retrying" /\ jobs[j].retry_count = jobs[j].max_retries)

(* C7: retry_count <= max_retries for every job. *)
C7_RetryCountBounded ==
    \A j \in JobIds : jobs[j].retry_count <= jobs[j].max_retries

C7_Witness ==
    \E j \in JobIds :
        /\ jobs[j].retry_count = jobs[j].max_retries
        /\ jobs[j].job_status = "failed"

(* C8: completed_at is set exactly when job_status is completed. *)
C8_CompletedAtIffCompleted ==
    NamesBound =>
    \A j \in JobIds : jobs[j].completed_at <=> jobs[j].job_status = "completed"

(* C9: a confidence_score that is not null lies between 0 and 100. *)
C9_BoundedConfidence ==
    NamesBound =>
    \A j \in JobIds :
        jobs[j].confidence_score # NoScore
        => jobs[j].confidence_score >= 0 /\ jobs[j].confidence_score <= 100

(* C10: for every onboarding that has job rows, document_processing_status is
   completed exactly when all its job rows are completed. *)
JobsOf(o) == {j \in JobIds : jobs[j].onboarding_id = o}

C10_RollupCompleted ==
    NamesBound =>
    \A o \in OnboardingIds :
        JobsOf(o) # {}
        => (onboarding[o].document_processing_status = "completed"
            <=> \A j \in JobsOf(o) : jobs[j].job_status = "completed")

(* C11: for every onboarding that has job rows, document_processing_status is
   failed exactly when at least one of its jobs is failed and none of its
   jobs is queued, processing or retrying. *)
C11_RollupFailed ==
    NamesBound =>
    \A o \in OnboardingIds :
        JobsOf(o) # {}
        => (onboarding[o].document_processing_status = "failed"
            <=> /\ \E j \in JobsOf(o) : jobs[j].job_status = "failed"
                /\ \A j \in JobsOf(o) :
                      jobs[j].job_status \notin {"queued", "processing", "retrying"})

(* C12: an attempt that fails because the pattern is absent from the text,
   because the document type is unknown, or because an oracle answered
   not-verified, leaves the job failed with its retry_count unchanged. *)
TerminalErrors ==
    {"NIN not found in document", "BVN not found in document",
     "Unknown document type", "oracle message", "NULL"}

C12_TerminalFailuresNotRetried ==
    [][\A j \in JobIds :
          (/\ NamesBound
           /\ jobs[j].job_status = "processing"
           /\ jobs'[j].job_status \notin {"processing", "completed"}
           /\ jobs'[j].error_message \in TerminalErrors)
          => /\ jobs'[j].job_status = "failed"
             /\ jobs'[j].retry_count = jobs[j].retry_count]_vars

(* C13: with an OCR service that times out on every call, the first attempt
   on a job that uses extraction leaves it retrying with retry_count = 1,
   and the attempt number max_retries leaves it failed. *)
UsesExtraction(document_type) == document_type \in IdentityTypes \cup {"bank_statement"}

C13_RetryOnTimeout ==
    [][\A j \in JobIds :
          (/\ NamesBound
           /\ UsesExtraction(jobs[j].document_type)
           /\ jobs[j].job_status = "processing"
           /\ jobs'[j].job_status # "processing")
          => /\ jobs[j].retry_count = 0
                => jobs'[j].job_status = "retrying" /\ jobs'[j].retry_count = 1
             /\ jobs[j].retry_count = jobs[j].max_retries - 1
                => jobs'[j].job_status = "failed"]_vars

(* C14: a job that is queued, processing or retrying eventually is completed,
   or failed with its retries spent. *)
Settled(j) ==
    /\ j \in JobIds
    /\ \/ jobs[j].job_status = "completed"
       \/ jobs[j].job_status = "failed" /\ jobs[j].retry_count = jobs[j].max_retries

C14_EveryJobSettles ==
    \A j \in 1..MaxJobs :
        (/\ NamesBound
         /\ j \in JobIds
         /\ jobs[j].job_status \in {"queued", "processing", "retrying"})
        ~> Settled(j)

(* C15: when a call of process_document_async that moved a job to processing
   ends, the committed job_status of that job is completed, failed or
   retrying. *)
C15_NoJobLeftInProcessing ==
    [][\A w \in Workers :
          (pc[w] \in {"process", "commit"} /\ pc'[w] = "idle")
          => jobs'[local[w].job].job_status \in {"completed", "failed", "retrying"}]_vars

C15_Witness ==
    /\ \A w \in Workers : pc[w] = "idle"
    /\ \E j \in JobIds : jobs[j].started_at /\ jobs[j].job_status = "retrying"
    /\ \E j \in JobIds : jobs[j].started_at /\ jobs[j].job_status = "completed"

(* C16: no call of process_document_async raises to its caller, and an
   attempt that fails changes no job row other than its own. *)
C16_FailureContainment ==
    [][NamesBound =>
          /\ response'.kind # "raise"
          /\ \A w \in Workers :
                (pc[w] = "process" /\ pc'[w] = "idle")
                => \A j \in JobIds \ {local[w].job} : jobs'[j] = jobs[j]]_vars

(* C17: a job that an attempt left failed or retrying has an error_message. *)
C17_FailureCarriesErrorMessage ==
    NamesBound =>
    \A j \in JobIds :
        (jobs[j].started_at /\ jobs[j].job_status \in {"failed", "retrying"})
        => jobs[j].error_message # "NULL"

(* C18: an attempt that ends with its job failed or retrying leaves the
   verified fields of every onboarding as they were; a verified field changes
   only in the step that commits a job as completed. *)
VerifiedFields(row) ==
    <<row.nin_verified, row.bvn_verified, row.id_document_verified,
      row.selfie_verified, row.bank_verification_status>>

C18_FailureSetsNoVerifiedField ==
    [][/\ \A w \in Workers :
            (/\ pc[w] \in {"process", "commit"}
             /\ pc'[w] = "idle"
             /\ jobs'[local[w].job].job_status \in {"failed", "retrying"})
            => \A o \in OnboardingIds :
                  VerifiedFields(onboarding'[o]) = VerifiedFields(onboarding[o])
       /\ \A o \in OnboardingIds :
            VerifiedFields(onboarding'[o]) # VerifiedFields(onboarding[o])
            => \E w \in Workers :
                  /\ pc[w] = "commit"
                  /\ pc'[w] = "idle"
                  /\ local[w].onboarding_id = o
                  /\ jobs'[local[w].job].job_status = "completed"]_vars

C18_Witness ==
    \E j \in JobIds :
        /\ jobs[j].job_status \in {"failed", "retrying"}
        /\ jobs[j].retry_count > 0
        /\ onboarding[jobs[j].onboarding_id].nin_verified

(* C19: an attempt on a nin or bvn job whose OCR call succeeds with a text
   holding an 11-digit number yields a completed result with a
   confidence_score above 0 and sets the matching verified flag. *)
ElevenDigitNumber(text) ==
    \E i \in 1..(Len(text) - 10) :
        /\ \A k \in i..(i + 10) : text[k] \in Digits
        /\ (i > 1 => text[i - 1] \in {":", " "})
        /\ i + 10 = Len(text)

C19_IdentityNumberHappyPath ==
    [][\A w \in Workers, ocr \in OcrAnswers, oracle \in OracleAnswers :
          (/\ ProcessDocument(w, ocr, oracle)
           /\ local[w].document_type \in {"nin", "bvn"}
           /\ ocr.ok
           /\ ElevenDigitNumber(ocr.text))
          => /\ pc'[w] = "commit"
             /\ local'[w].result.status = "completed"
             /\ local'[w].result.confidence_score > 0
             /\ IF local[w].document_type = "nin"
                THEN local'[w].onb_new.nin_verified
                ELSE local'[w].onb_new.bvn_verified]_vars

(* C20: once every job of an onboarding is completed and no call is at work
   on that onboarding, its document_processing_status is completed. *)
AtWorkOn(o) ==
    {w \in Workers : pc[w] \in {"process", "commit"} /\ local[w].onboarding_id = o}

C20_ConcurrentCompletionKeepsRollup ==
    NamesBound =>
    \A o \in OnboardingIds :
        (/\ Cardinality(JobsOf(o)) > 1
         /\ \A j \in JobsOf(o) : jobs[j].job_status = "completed"
         /\ AtWorkOn(o) = {})
        => onboarding[o].document_processing_status = "completed"

(* C21: an attempt on an identity, bank_statement or supporting-document job
   whose OCR extraction fails ends as a failure, never as completed. *)
ExtractionTypes == IdentityTypes \cup {"bank_statement"} \cup SupportingTypes

C21_ExtractionFailureFailsJob ==
    [][\A w \in Workers, oracle \in OracleAnswers :
          (/\ NamesBound
           /\ ProcessDocument(w, OcrTimeout, oracle)
           /\ local[w].document_type \in ExtractionTypes)
          => /\ pc'[w] = "idle"
             /\ jobs'[local[w].job].job_status \in {"failed", "retrying"}]_vars

(* C22: an attempt on a selfie job whose oracle reports a face but no
   liveness does not yield a completed result. *)
C22_SelfieNeedsBothSignals ==
    [][\A w \in Workers, ocr \in OcrAnswers, oracle \in OracleAnswers :
          (/\ NamesBound
           /\ ProcessDocument(w, ocr, oracle)
           /\ local[w].document_type = "selfie"
           /\ oracle.ok /\ oracle.positive /\ ~oracle.liveness)
          => /\ pc'[w] = "idle"
             /\ jobs'[local[w].job].job_status \in {"failed", "retrying"}]_vars

(* C23: an attempt on a nin, bvn or id_document job whose extracted text
   holds no digit string ends as a failure whose error_message says that the
   pattern was not found. *)
NoDigitString(text) == \A k \in 1..Len(text) : text[k] \notin Digits

PatternNotFound ==
    {"NIN not found in document", "BVN not found in document",
     "ID number not found in document"}

C23_PatternCheckForIdentityTypes ==
    [][\A w \in Workers, ocr \in OcrAnswers, oracle \in OracleAnswers :
          (/\ NamesBound
           /\ ProcessDocument(w, ocr, oracle)
           /\ local[w].document_type \in IdentityTypes
           /\ ocr.ok /\ NoDigitString(ocr.text))
          => /\ pc'[w] = "idle"
             /\ jobs'[local[w].job].job_status \in {"failed", "retrying"}
             /\ jobs'[local[w].job].error_message \in PatternNotFound]_vars

(* C24: the aggregator applied to its own outcome, with the same arguments
   and the same job rows, gives that outcome again, and the rollup it writes
   is a function of the job rows of the onboarding alone, whatever the
   onboarding row held. *)
CompletedResults ==
    {Result("completed", "success", "verified", 95, "NULL"),
     Result("completed", "NULL", "not_verified", 90, "NULL")}

OnboardingRows == {onboarding[o] : o \in OnboardingIds} \cup {NewOnboarding}

C24_AggregatorIdempotent ==
    \A o \in OnboardingIds, result \in CompletedResults, row \in OnboardingRows :
    \A own \in JobsOf(o) :
        LET t == jobs[own].document_type
            once == UpdateOnboardingDocumentStatus(row, o, t, result, jobs, own)
            twice == UpdateOnboardingDocumentStatus(once, o, t, result, jobs, own)
        IN  /\ twice = once
            /\ once.document_processing_status =
                   Rollup([j \in JobsOf(o) |->
                              IF j = own THEN "completed" ELSE jobs[j].job_status])

(* a completed job is processed again by job_id and completes again: the
   aggregator ran twice and its second outcome is the record it loaded *)
C24_Witness ==
    \E w \in Workers :
        /\ pc[w] = "commit"
        /\ jobs[local[w].job].completed_at
        /\ onboarding[local[w].onboarding_id].document_processing_status = "completed"
        /\ local[w].onb_new = onboarding[local[w].onboarding_id]

(* C25: an onboarding record changes only in the step in which the
   aggregator of a call commits, and only the record of the onboarding_id of
   that call; fingerprinting, the deduplication query, the creation of the
   job, extraction, dispatch and verification leave every record as it is. *)
C25_OnlyAggregatorWritesOnboarding ==
    [][/\ \A o \in OnboardingIds :
            onboarding'[o] # onboarding[o]
            => \E w \in Workers :
                  /\ pc[w] = "commit"
                  /\ pc'[w] = "idle"
                  /\ local[w].onboarding_id = o
       /\ \A w \in Workers :
            (pc[w] # "commit" /\ pc'[w] # pc[w]) => onboarding' = onboarding]_vars

C25_Witness ==
    \E o \in OnboardingIds, p \in OnboardingIds :
        /\ onboarding[o] # NewOnboarding
        /\ onboarding[p] = NewOnboarding
        /\ \E j \in JobsOf(p) : jobs[j].started_at

(* C26: a call without job_id whose fetch of the document fails takes the
   hash of the URL as content_hash, and when a job with that content_hash is
   in processing or completed its deduplication query returns that job and
   inserts nothing. *)
C26_FingerprintFallback ==
    [][/\ \A w \in Workers, o \in OnboardingIds, t \in PipelineTypes, u \in DocumentUrls :
            Submit(w, o, t, u, FALSE) => local'[w].content_hash = Sha256(u)
       /\ \A w \in Workers, u \in DocumentUrls :
            (/\ pc[w] = "lookup"
             /\ pc'[w] # "lookup"
             /\ ~LookupExistingFails(w)
             /\ local[w].content_hash = Sha256(u)
             /\ InFlightOrDone(Sha256(u)) # {})
            => /\ response'.kind = "return"
               /\ response'.job \in InFlightOrDone(Sha256(u))
               /\ jobs' = jobs]_vars

C26_Witness ==
    /\ response.kind = "return"
    /\ response.job \in JobIds
    /\ \E u \in DocumentUrls : jobs[response.job].content_hash = Sha256(u)

(* C27: the job that the deduplication query of a call without job_id
   returns has the onboarding_id and the document_type of the call. *)
C27_DeduplicationInsideOnboarding ==
    [][\A w \in Workers :
          (/\ NamesBound
           /\ pc[w] = "lookup"
           /\ pc'[w] = "idle"
           /\ response'.kind = "return")
          => /\ jobs[response'.job].onboarding_id = local[w].onboarding_id
             /\ jobs[response'.job].document_type = local[w].document_type]_vars

(* C28: a verified field of an onboarding is true (verified, for the bank
   field) only while the onboarding has a completed job of the matching
   document_type. *)
HasCompleted(o, document_type) ==
    \E j \in JobsOf(o) :
        jobs[j].document_type = document_type /\ jobs[j].job_status = "completed"

C28_VerifiedBackedByCompletedJob ==
    NamesBound =>
    \A o \in OnboardingIds :
        /\ onboarding[o].nin_verified => HasCompleted(o, "nin")
        /\ onboarding[o].bvn_verified => HasCompleted(o, "bvn")
        /\ onboarding[o].id_document_verified => HasCompleted(o, "id_document")
        /\ onboarding[o].selfie_verified => HasCompleted(o, "selfie")
        /\ onboarding[o].bank_verification_status = "verified"
              => HasCompleted(o, "bank_statement")

(* C29: a call without job_id whose content_hash is held only by jobs in
   queued, retrying or failed is not answered with one of them: it inserts a
   new row with that content_hash, leaves the earlier rows as they are and,
   where the claim of the row (l.67-70) goes through, runs the extraction on
   the new row. *)
NotInFlight(content_hash) ==
    {j \in JobIds : /\ jobs[j].content_hash = content_hash
                    /\ jobs[j].job_status \in {"queued", "retrying", "failed"}}

C29_DeduplicationOnlyInFlightOrDone ==
    [][\A w \in Workers :
          LET h == local[w].content_hash IN
          /\ (/\ pc[w] = "lookup"
              /\ pc'[w] # "lookup"
              /\ ~LookupExistingFails(w)
              /\ InFlightOrDone(h) = {}
              /\ NotInFlight(h) # {})
             => pc'[w] = "create" /\ jobs' = jobs
          /\ (pc[w] = "create" /\ pc'[w] # "create")
             => /\ Len(jobs') = Len(jobs) + 1
                /\ jobs'[Len(jobs')].content_hash = h
                /\ jobs'[Len(jobs')].onboarding_id = local[w].onboarding_id
                /\ \A j \in JobIds : jobs'[j] = jobs[j]
                /\ func_bound => pc'[w] = "process" /\ local'[w].job = Len(jobs')
          /\ (pc[w] = "process" /\ pc'[w] # "process" /\ h # <<>>)
             => ocr_calls' = ocr_calls + 1]_vars

C29_Witness ==
    \E w \in Workers :
        /\ pc[w] = "process"
        /\ local[w].content_hash # <<>>
        /\ \E j \in NotInFlight(local[w].content_hash) : j < local[w].job

(* C30: when the exception of l.69 reaches the handler, the job is committed
   as failed with an error_message and its retry_count as it was, never as
   retrying, and no onboarding record is written; a call whose job_id names
   no row creates and changes no job row. *)
C30_UnexpectedErrorPath ==
    [][\A w \in Workers :
          /\ (~func_bound /\ pc[w] = "create" /\ pc'[w] # "create")
             => /\ pc'[w] = "idle"
                /\ jobs'[Len(jobs')].job_status = "failed"
                /\ jobs'[Len(jobs')].error_message # "NULL"
                /\ jobs'[Len(jobs')].retry_count = 0
                /\ onboarding' = onboarding
          /\ \A j \in JobIds :
                (~func_bound /\ jobs'[j] # jobs[j])
                => /\ jobs'[j].job_status = "failed"
                   /\ jobs'[j].error_message # "NULL"
                   /\ jobs'[j].retry_count = jobs[j].retry_count
                   /\ onboarding' = onboarding
          /\ \A j \in (1..MaxJobs) \ JobIds :
                SubmitWithJobId(w, j, 1, "nin")
                => jobs' = jobs /\ onboarding' = onboarding]_vars

C30_Witness ==
    /\ ~func_bound
    /\ response.kind = "return"
    /\ \E j \in JobIds :
          /\ jobs[j].job_status = "failed"
          /\ jobs[j].error_message = "name 'func' is not defined"
          /\ jobs[j].retry_count = 0
====
